---- MODULE Spec2Model ----
(***************************************************************************)
(* A model of msh (src/msh.c): the read-eval loop of main, the tokenizer   *)
(* parse_tokens, the dispatcher run_command_string with its ring-buffer    *)
(* history, print_history and run_external.                                *)
(*                                                                         *)
(* A C string is a sequence of one-character strings.  A NULL pointer is   *)
(* the distinguished value NULL, which is no C string.                     *)
(***************************************************************************)
EXTENDS Integers, Sequences, FiniteSets, TLC

\* ------------------------------------------------------------------------
\* Program constants (src/msh.c:35-44)
\* ------------------------------------------------------------------------
WHITESPACE == {" ", "\t", "\n"}

MAX_COMMAND_SIZE == 255

MAX_NUM_ARGUMENTS == 10

HISTORY_SIZE == 15

\* The value strtoul returns on overflow and for "-1".  It stands for
\* 2^64 - 1: the code only ever compares the result with HISTORY_SIZE.
ULONG_MAX == 2147483647

NULL == <<"NULL">>

\* ------------------------------------------------------------------------
\* Bounds of the model
\* ------------------------------------------------------------------------
\* The input is a scripted prefix of at most MaxPrefill external commands
\* followed by at most MaxLines lines chosen freely from Lines.
MaxPrefill == 17

MaxLines == 2

\* run_command_string calls itself; the model gives up at this depth.
MaxDepth == 3

\* ------------------------------------------------------------------------
\* Words and lines of the input alphabet
\* ------------------------------------------------------------------------
W_history == <<"h", "i", "s", "t", "o", "r", "y">>
W_cd == <<"c", "d">>
W_quit == <<"q", "u", "i", "t">>
W_exit == <<"e", "x", "i", "t">>
W_p == <<"-", "p">>
W_echo == <<"e", "c", "h", "o">>
W_ls == <<"l", "s">>

\* words joined by single spaces, ended by the newline fgets keeps
RECURSIVE Join(_)
Join(ws) ==
    IF Len(ws) = 0 THEN <<>>
    ELSE IF Len(ws) = 1 THEN Head(ws)
    ELSE Head(ws) \o <<" ">> \o Join(Tail(ws))

Ln(ws) == Join(ws) \o <<"\n">>

\* the scripted prefix: echo a, echo b, echo c, echo a, ...
FillLine(k) == Ln(<<W_echo, <<<<"a">>, <<"b">>, <<"c">>>>[(k % 3) + 1]>>)

\* ------------------------------------------------------------------------
\* free_array / parse_tokens (src/msh.c:60-110)
\* ------------------------------------------------------------------------
\* strsep(&working_string, WHITESPACE) on a non-NULL working string: the piece
\* up to the first delimiter, and what working_string points to afterwards
\* (NULL when no delimiter was found).
RECURSIVE DelimPos(_, _)
DelimPos(s, i) ==
    IF i > Len(s) THEN 0
    ELSE IF s[i] \in WHITESPACE THEN i
    ELSE DelimPos(s, i + 1)

strsep(s) ==
    LET p == DelimPos(s, 1)
    IN  IF p = 0 THEN [piece |-> s, rest |-> NULL]
        ELSE [piece |-> SubSeq(s, 1, p - 1), rest |-> SubSeq(s, p + 1, Len(s))]

\* strndup(argument_ptr, MAX_COMMAND_SIZE)
strndup(s, n) == IF Len(s) > n THEN SubSeq(s, 1, n) ELSE s

\* the while loop of parse_tokens: strsep is called before token_count is
\* compared, an empty piece is stored as NULL and still takes a slot
RECURSIVE ParseLoop(_, _, _)
ParseLoop(working, token_count, tok) ==
    IF working = NULL THEN [count |-> token_count, tok |-> tok]
    ELSE LET r == strsep(working)
         IN  IF token_count < MAX_NUM_ARGUMENTS
             THEN LET t == strndup(r.piece, MAX_COMMAND_SIZE)
                  IN  ParseLoop(r.rest, token_count + 1,
                          [tok EXCEPT ![token_count] =
                              IF Len(t) = 0 THEN NULL ELSE t])
             ELSE [count |-> token_count, tok |-> tok]

\* the slots past the last piece keep what an earlier parse left there
parse_tokens_stale(tok, command_string) == ParseLoop(command_string, 0, tok).tok

\* parse_tokens(command_string) as a function of the old token array: slots
\* 0..MAX_NUM_ARGUMENTS-1 are rewritten, slot MAX_NUM_ARGUMENTS is left alone
parse_tokens(tok, command_string) ==
    LET r == ParseLoop(command_string, 0, tok)
    IN  [i \in 0..MAX_NUM_ARGUMENTS |->
            IF i >= r.count /\ i < MAX_NUM_ARGUMENTS THEN NULL ELSE r.tok[i]]

\* ------------------------------------------------------------------------
\* strtoul(cmd + 1, &endp, 10) (src/msh.c:213)
\* ------------------------------------------------------------------------
Digits == <<"0", "1", "2", "3", "4", "5", "6", "7", "8", "9">>

IsDigit(c) == \E d \in 1..10 : Digits[d] = c

DigitVal(c) == (CHOOSE d \in 1..10 : Digits[d] = c) - 1

\* the digits from position i on: the accumulated value, saturating at
\* ULONG_MAX, and the position of the first character not consumed
RECURSIVE ScanDigits(_, _, _)
ScanDigits(s, i, acc) ==
    IF i <= Len(s) /\ IsDigit(s[i])
    THEN ScanDigits(s, i + 1,
             IF acc > (ULONG_MAX - DigitVal(s[i])) \div 10
             THEN ULONG_MAX ELSE acc * 10 + DigitVal(s[i]))
    ELSE [val |-> acc, end |-> i]

\* strtoul: an optional sign, then digits; without any digit nothing is
\* consumed and 0 is returned.  A token holds no white space, so the leading
\* white space strtoul skips cannot occur.  rest is the string endp points to.
strtoul(s) ==
    LET signed == Len(s) >= 1 /\ s[1] \in {"+", "-"}
        start == IF signed THEN 2 ELSE 1
        r == ScanDigits(s, start, 0)
    IN  IF r.end = start THEN [val |-> 0, rest |-> s]
        ELSE [val |-> IF signed /\ s[1] = "-" /\ r.val # 0
                      THEN ULONG_MAX - (r.val - 1) ELSE r.val,
              rest |-> SubSeq(s, r.end, Len(s))]

\* ------------------------------------------------------------------------
\* The state
\* ------------------------------------------------------------------------
VARIABLES
    history,    \* struct command history[HISTORY_SIZE]: slot -> [cmd, pid]
    hist_ptr,   \* the slot of the most recent record, -1 at the start
    token,      \* char *token[MAX_NUM_ARGUMENTS + 1]
    pc,         \* "prompt", "exited" (return 0), "fatal" (exit(EXIT_FAILURE)),
                \* "crashed" (a NULL token[0] was dereferenced), "overflow"
    cwd,        \* the working directory chdir sets
    nextpid,    \* the process id the next successful fork returns
    line,       \* the line fgets read last
    msgs,       \* what the last line made the shell or its child report
    listing,    \* the lines print_history printed for the last line
    effects,    \* print_history / chdir / fork+execvp performed for the last line
    resolved,   \* the history text a bang reference of the last line resolved to
    depth,      \* the deepest nesting of run_command_string for the last line
    route,      \* the branches of run_command_string taken for the last line
    appends,    \* how many records have been added so far
    born,       \* slot -> the number of the append that wrote it, 0 for none
    nfree       \* how many freely chosen lines have been read

vars == <<history, hist_ptr, token, pc, cwd, nextpid, line, msgs, listing,
          effects, resolved, depth, route, appends, born, nfree>>

Slots == 0..(HISTORY_SIZE - 1)

\* the environment: the directories chdir accepts, $HOME, the programs
\* execvp finds
D_start == <<"/">>
D_home == <<"h">>
D_x == <<"x">>
Dirs == {D_start, D_home, D_x}
getenv_HOME == D_home
Programs == {W_echo, W_ls}
FirstPid == 100

\* ------------------------------------------------------------------------
\* printf conversions of print_history (src/msh.c:160-188)
\* ------------------------------------------------------------------------
RECURSIVE DecStr(_)
DecStr(n) == IF n < 10 THEN <<Digits[n + 1]>>
             ELSE DecStr(n \div 10) \o <<Digits[(n % 10) + 1]>>

\* %d
FmtD(n) == IF n < 0 THEN <<"-">> \o DecStr(0 - n) ELSE DecStr(n)

\* %2d
Fmt2d(n) == IF Len(FmtD(n)) < 2 THEN <<" ">> \o FmtD(n) ELSE FmtD(n)

\* one printf of print_history: "[%2d] [%d] %s" or "[%2d] %s"
HistoryLine(showpid, j, rec) ==
    <<"[">> \o Fmt2d(j) \o <<"]", " ">>
    \o (IF showpid THEN <<"[">> \o FmtD(rec.pid) \o <<"]", " ">> ELSE <<>>)
    \o rec.cmd

\* the listing always starts at slot 0
print_history_nowrap(h, hp, showpid) ==
    [n \in 1..(hp + 1) |-> HistoryLine(showpid, n - 1, h[n - 1])]

\* print_history(showpid): the lines printed, in order
print_history(h, hp, showpid) ==
    IF hp = HISTORY_SIZE - 1 \/ h[hp + 1].cmd = NULL
    THEN [n \in 1..(hp + 1) |-> HistoryLine(showpid, n - 1, h[n - 1])]
    ELSE [n \in 1..HISTORY_SIZE |->
             HistoryLine(showpid, n - 1, h[(hp + n) % HISTORY_SIZE])]

\* ------------------------------------------------------------------------
\* run_external (src/msh.c:113-147)
\* ------------------------------------------------------------------------
\* the argument vector execvp sees: token up to its first NULL
RECURSIVE Argv(_, _)
Argv(tok, i) ==
    IF i > MAX_NUM_ARGUMENTS \/ tok[i] = NULL THEN <<>>
    ELSE <<tok[i]>> \o Argv(tok, i + 1)

Msg(stream, text, arg) == [stream |-> stream, text |-> text, arg |-> arg]

Effect(kind, s, pid, ok) ==
    [kind |-> kind, newest |-> s.hist_ptr, text |-> s.history[s.hist_ptr].cmd,
     argv |-> Argv(s.token, 0), pid |-> pid, ok |-> ok]

\* the pid run_external returns is not stored in the record
run_external_nostore(s, forkok) ==
    IF ~forkok
    THEN [s EXCEPT !.pc = "fatal",
                   !.msgs = Append(@, Msg("stderr", "fork: fatal error", <<>>))]
    ELSE [s EXCEPT !.nextpid = @ + 1,
                   !.effects = Append(@, Effect("exec", s, s.nextpid,
                                                s.token[0] \in Programs))]

\* fork fails: perror and exit(EXIT_FAILURE).  Otherwise the child runs
\* execvp (reporting when it fails), the parent waits and returns the pid,
\* which the caller stores in history[hist_ptr].pid.
run_external(s, forkok) ==
    IF ~forkok
    THEN [s EXCEPT !.pc = "fatal",
                   !.msgs = Append(@, Msg("stderr", "fork: fatal error", <<>>))]
    ELSE LET found == s.token[0] \in Programs
         IN  [s EXCEPT
                 !.history[s.hist_ptr].pid = s.nextpid,
                 !.nextpid = @ + 1,
                 !.msgs = IF found THEN @
                          ELSE Append(@, Msg("stderr", ": Command not found.",
                                             s.token[0])),
                 !.effects = Append(@, Effect("exec", s, s.nextpid, found))]

\* ------------------------------------------------------------------------
\* run_command_string (src/msh.c:194-302)
\* ------------------------------------------------------------------------
\* lines 253-268: advance hist_ptr with wrap-around, store a copy of
\* command_string with pid -1 (the copy is taken before the slot's previous
\* text is freed)
\* the wrap-around test off by one: the last slot is never used
add_history_skiplast(s, command_string) ==
    LET hp == IF s.hist_ptr + 1 >= HISTORY_SIZE - 1 THEN 0 ELSE s.hist_ptr + 1
    IN  [s EXCEPT !.hist_ptr = hp,
                  !.history[hp] = [cmd |-> command_string, pid |-> -1],
                  !.appends = @ + 1,
                  !.born[hp] = s.appends + 1]

\* the command word is stored instead of the line
add_history_cmdonly(s, command_string) ==
    LET hp == IF s.hist_ptr + 1 = HISTORY_SIZE THEN 0 ELSE s.hist_ptr + 1
    IN  [s EXCEPT !.hist_ptr = hp,
                  !.history[hp] = [cmd |-> s.token[0], pid |-> -1],
                  !.appends = @ + 1,
                  !.born[hp] = s.appends + 1]

\* the pid of the slot is not reset to -1
add_history_keeppid(s, command_string) ==
    LET hp == IF s.hist_ptr + 1 = HISTORY_SIZE THEN 0 ELSE s.hist_ptr + 1
    IN  [s EXCEPT !.hist_ptr = hp,
                  !.history[hp] = [cmd |-> command_string, pid |-> s.history[hp].pid],
                  !.appends = @ + 1,
                  !.born[hp] = s.appends + 1]

\* the old text of the slot is released before the copy is taken
add_history_freefirst(s, command_string) ==
    LET hp == IF s.hist_ptr + 1 = HISTORY_SIZE THEN 0 ELSE s.hist_ptr + 1
        copy == IF s.resolved # NULL /\ command_string = s.history[hp].cmd
                THEN <<"?">> ELSE command_string
    IN  [s EXCEPT !.hist_ptr = hp,
                  !.history[hp] = [cmd |-> copy, pid |-> -1],
                  !.appends = @ + 1,
                  !.born[hp] = s.appends + 1]

add_history(s, command_string) ==
    LET hp == IF s.hist_ptr + 1 = HISTORY_SIZE THEN 0 ELSE s.hist_ptr + 1
        copy == command_string
    IN  [s EXCEPT !.hist_ptr = hp,
                  !.history[hp] = [cmd |-> copy, pid |-> -1],
                  !.appends = @ + 1,
                  !.born[hp] = s.appends + 1]

\* lines 270-274: the history built-in
builtin_history(s) ==
    LET showpid == s.token[1] # NULL /\ s.token[1] = W_p
    IN  [s EXCEPT !.listing = @ \o print_history(s.history, s.hist_ptr, showpid),
                  !.effects = Append(@, Effect("history", s, -1, TRUE))]

\* lines 275-296: the cd built-in
builtin_cd(s) ==
    IF s.token[2] # NULL
    THEN [s EXCEPT !.msgs = Append(@, Msg("stderr", "Too many args for cd command",
                                          <<>>))]
    ELSE LET dir == IF s.token[1] = NULL THEN getenv_HOME ELSE s.token[1]
             ok == dir \in Dirs
         IN  [s EXCEPT !.cwd = IF ok THEN dir ELSE @,
                       !.msgs = IF ok THEN @
                                ELSE Append(@, Msg("stderr", "cd: ", dir)),
                       !.effects = Append(@, Effect("chdir", s, -1, ok))]

\* line 231: the test that the ring has wrapped and hist_ptr is not its last slot
wrapped(s) ==
    s.hist_ptr # HISTORY_SIZE - 1 /\ s.history[s.hist_ptr + 1].cmd # NULL

\* the reference is taken as a slot number
real_index_absolute(s, hist) == hist

\* lines 231-238: the slot `!hist` names
real_index(s, hist) ==
    IF wrapped(s)
    THEN IF hist + s.hist_ptr + 1 >= HISTORY_SIZE
         THEN hist + s.hist_ptr + 1 - HISTORY_SIZE
         ELSE hist + s.hist_ptr + 1
    ELSE hist

\* line 199: *(cmd + 1) == '!'
second_is_bang(cmd) == Len(cmd) >= 2 /\ cmd[2] = "!"

\* lines 206 and 245: parse_tokens(history[slot].cmd)
Replay(s, slot) ==
    [s EXCEPT !.token = parse_tokens(s.token, s.history[slot].cmd),
              !.resolved = s.history[slot].cmd]

\* the nested call is handed the bang line
replay_arg_outer(s, slot, command_string) == command_string

\* lines 207 and 246: the string handed to the nested run_command_string
replay_arg(s, slot, command_string) == s.history[slot].cmd

\* the rejected reference is recorded in the history all the same
reference_error_recorded(s, m) ==
    add_history([s EXCEPT !.msgs = Append(@, m)], s.token[0] \o <<"\n">>)

\* lines 201-202, 217-221 and 240-241: a reference that cannot be resolved is
\* reported and the dispatch returns
reference_error(s, m) == [s EXCEPT !.msgs = Append(@, m)]

\* line 217: the test that rejects the reference
invalid_reference(r) == Len(r.rest) # 0 \/ r.val >= HISTORY_SIZE

Took(s, branch) == [s EXCEPT !.route = Append(@, branch)]

RECURSIVE run_command_string(_, _, _, _)
run_command_string(s0, command_string, d, forkok) ==
    LET s == [s0 EXCEPT !.depth = IF d > @ THEN d ELSE @]
        cmd == s.token[0]
    IN  IF d > MaxDepth THEN [s EXCEPT !.pc = "overflow"]
        ELSE IF cmd = NULL THEN [s EXCEPT !.pc = "crashed"]
        ELSE IF cmd[1] = "!"
        THEN IF second_is_bang(cmd)
             THEN LET b == Took(s, "BangLatest")
                  IN  IF b.hist_ptr = -1
                      THEN reference_error(b,
                               Msg("stdout", "Command not in history", <<>>))
                      ELSE run_command_string(Replay(b, b.hist_ptr),
                               replay_arg(b, b.hist_ptr, command_string),
                               d + 1, forkok)
             ELSE LET b == Took(s, "BangIndexed")
                      r == strtoul(Tail(cmd))
                  IN  IF invalid_reference(r)
                      THEN reference_error(b,
                               Msg("stderr", "Invalid reference: ", Tail(cmd)))
                      ELSE LET hist == real_index(b, r.val)
                               b1 == IF wrapped(b)
                                     THEN [b EXCEPT !.msgs = Append(@,
                                               Msg("stdout", "here!!", <<>>))]
                                     ELSE b
                           IN  IF b.history[hist].cmd = NULL
                               THEN reference_error(b1,
                                        Msg("stderr", "Command not in history", <<>>))
                               ELSE run_command_string(Replay(b1, hist),
                                        replay_arg(b1, hist, command_string),
                                        d + 1, forkok)
        ELSE LET a == add_history(s, command_string)
             IN  IF cmd = W_history THEN builtin_history(Took(a, "BuiltinHistory"))
                 ELSE IF cmd = W_cd THEN builtin_cd(Took(a, "BuiltinChangeDir"))
                 ELSE run_external(Took(a, "External"), forkok)

\* ------------------------------------------------------------------------
\* main (src/msh.c:304-351): one iteration of the read-eval loop
\* ------------------------------------------------------------------------
St == [history |-> history, hist_ptr |-> hist_ptr, token |-> token, pc |-> pc,
       cwd |-> cwd, nextpid |-> nextpid, msgs |-> msgs, listing |-> listing,
       effects |-> effects, resolved |-> resolved, depth |-> depth,
       route |-> route,
       appends |-> appends, born |-> born]

\* what is observed of one line starts empty
Fresh(s) == [s EXCEPT !.msgs = <<>>, !.listing = <<>>, !.effects = <<>>,
                      !.resolved = NULL, !.depth = 0, !.route = <<>>]

\* quit and exit are recognised only after the line has been dispatched
main_loop_latequit(s0, command_string, forkok) ==
    LET s == Fresh(s0)
    IN  IF command_string[1] = "\n" THEN s
        ELSE LET p == [s EXCEPT !.token = parse_tokens(s.token, command_string)]
                 cmd == p.token[0]
                 r == run_command_string(p, command_string, 1, forkok)
             IN  IF cmd = NULL THEN [p EXCEPT !.pc = "crashed"]
                 ELSE IF cmd = W_quit \/ cmd = W_exit THEN [r EXCEPT !.pc = "exited"]
                 ELSE r

main_loop(s0, command_string, forkok) ==
    LET s == Fresh(s0)
    IN  IF command_string[1] = "\n" THEN s
        ELSE LET p == [s EXCEPT !.token = parse_tokens(s.token, command_string)]
                 cmd == p.token[0]
             IN  IF cmd = NULL THEN [p EXCEPT !.pc = "crashed"]
                 ELSE IF cmd = W_quit \/ cmd = W_exit THEN [p EXCEPT !.pc = "exited"]
                 ELSE run_command_string(p, command_string, 1, forkok)

\* a fork was attempted and failed
ForkFailed(s) == s.pc = "fatal"

\* the lines the free part of the input is drawn from
BangN(i) == Ln(<<<<"!">> \o DecStr(i)>>)

W_w == <<"w">>

Lines ==
    {
      Ln(<<W_ls>>),
      Ln(<<W_history>>), Ln(<<W_history, W_p>>),
      Ln(<<W_cd>>), Ln(<<W_cd, D_x>>), Ln(<<W_cd, <<"n">>>>),
      Ln(<<W_cd, <<"n">>, D_x>>), W_cd \o <<" ">> \o D_x \o <<" ", " ", "y", "\n">>,
      Ln(<<W_quit>>), Ln(<<W_exit>>),
      Ln(<<<<"!", "!">>>>), Ln(<<<<"!", "!", "x">>>>), Ln(<<<<"!", "!">>, W_ls>>),
      Ln(<<<<"!">>>>), Ln(<<<<"!", "+", "1">>>>), Ln(<<<<"!", "-", "1">>>>),
      Ln(<<<<"!", "1", "x">>>>),
      <<"\n">>, <<" ">> \o Ln(<<W_ls>>), <<" ", "\n">>,
      W_echo \o <<" ", " ", "a", "\n">>,
      Ln(<<W_w, W_w, W_w, W_w, W_w, W_w, W_w, W_w, W_w, W_w, W_w, W_w>>)
    } \cup {BangN(i) : i \in 0..HISTORY_SIZE}

Init ==
    /\ history = [i \in Slots |-> [cmd |-> NULL, pid |-> 0]]
    /\ hist_ptr = -1
    /\ token = [i \in 0..MAX_NUM_ARGUMENTS |-> NULL]
    /\ pc = "prompt"
    /\ cwd = D_start
    /\ nextpid = FirstPid
    /\ line = NULL
    /\ msgs = <<>>
    /\ listing = <<>>
    /\ effects = <<>>
    /\ resolved = NULL
    /\ depth = 0
    /\ route = <<>>
    /\ appends = 0
    /\ born = [i \in Slots |-> 0]
    /\ nfree = 0

Becomes(s) ==
    /\ history' = s.history
    /\ hist_ptr' = s.hist_ptr
    /\ token' = s.token
    /\ pc' = s.pc
    /\ cwd' = s.cwd
    /\ nextpid' = s.nextpid
    /\ msgs' = s.msgs
    /\ listing' = s.listing
    /\ effects' = s.effects
    /\ resolved' = s.resolved
    /\ depth' = s.depth
    /\ route' = s.route
    /\ appends' = s.appends
    /\ born' = s.born

\* the scripted prefix: the next external command of the script is read
Fill ==
    /\ pc = "prompt"
    /\ nfree = 0
    /\ appends < MaxPrefill
    /\ line' = FillLine(appends)
    /\ Becomes(main_loop(St, FillLine(appends), TRUE))
    /\ UNCHANGED nfree

\* any line of Lines is read; a fork it leads to succeeds or fails
ReadLine ==
    /\ pc = "prompt"
    /\ nfree < MaxLines
    /\ \E ln \in Lines, forkok \in BOOLEAN :
          LET s == main_loop(St, ln, forkok)
          IN  /\ forkok \/ ForkFailed(s)
              /\ line' = ln
              /\ Becomes(s)
    /\ nfree' = nfree + 1

Next == Fill \/ ReadLine

Spec == Init /\ [][Next]_vars

\* ------------------------------------------------------------------------
\* Vocabulary of the properties
\* ------------------------------------------------------------------------
Live == {i \in Slots : history[i].cmd # NULL}

Min(a, b) == IF a < b THEN a ELSE b

\* the slot written by the n-th append, while that record is live
SlotOfAppend(n) == CHOOSE i \in Slots : born[i] = n

\* the record at logical index i (0 = oldest live): the append that made it
AppendAtIndex(i) == appends - Cardinality(Live) + i + 1

\* the first word of a line that starts with no white space
FirstWord(ln) == strsep(ln).piece

Reported(ms, text) == \E n \in 1..Len(ms) : ms[n].text = text

ReferenceErrorReported(ms) ==
    \/ Reported(ms, "Command not in history")
    \/ Reported(ms, "Invalid reference: ")

\* ------------------------------------------------------------------------
\* C1: the number of live records is min(k, HISTORY_SIZE) after k appends;
\* the live records are exactly the last min(k, HISTORY_SIZE) appended ones,
\* so once k >= HISTORY_SIZE the oldest live record, which sits right after
\* the newest in the ring, is the (k - HISTORY_SIZE + 1)-th appended one.
\* ------------------------------------------------------------------------
C1_Capacity ==
    /\ Cardinality(Live) = Min(appends, HISTORY_SIZE)
    /\ {born[i] : i \in Live} = (appends - Min(appends, HISTORY_SIZE) + 1)..appends
    /\ appends >= 1 => born[hist_ptr] = appends
    /\ appends >= HISTORY_SIZE =>
          born[(hist_ptr + 1) % HISTORY_SIZE] = appends - HISTORY_SIZE + 1

\* more appends than slots, the last of them by a replayed reference
C1_Witness ==
    /\ appends = HISTORY_SIZE + 2
    /\ resolved # NULL
    /\ pc = "prompt"

\* ------------------------------------------------------------------------
\* C2: with m live records, the line !i replays the text of the i-th oldest
\* live record when i < m (slot i while the ring has not wrapped or the
\* newest record is in the last slot, slot (newest+1+i) mod HISTORY_SIZE
\* otherwise), and reports "Command not in history" and runs nothing when
\* m <= i < HISTORY_SIZE.
\* ------------------------------------------------------------------------
C2_Slot(i) ==
    IF appends <= HISTORY_SIZE \/ hist_ptr = HISTORY_SIZE - 1 THEN i
    ELSE (hist_ptr + 1 + i) % HISTORY_SIZE

C2_Step(i) ==
    IF i < Cardinality(Live)
    THEN /\ SlotOfAppend(AppendAtIndex(i)) = C2_Slot(i)
         /\ resolved' = history[C2_Slot(i)].cmd
         /\ "BangIndexed" = route'[1]
         /\ Len(route') = 2
         /\ appends' = appends + 1
         /\ history'[hist_ptr'].cmd = history[C2_Slot(i)].cmd
    ELSE /\ msgs' = <<Msg("stderr", "Command not in history", <<>>)>>
         /\ effects' = <<>>
         /\ listing' = <<>>
         /\ resolved' = NULL
         /\ history' = history
         /\ hist_ptr' = hist_ptr

C2_IndexMapping ==
    [][\A i \in Slots : (pc = "prompt" /\ line' = BangN(i)) => C2_Step(i)]_vars

\* !3 has just replayed the fourth-oldest record of a wrapped ring
C2_Witness ==
    /\ line = BangN(3)
    /\ appends = HISTORY_SIZE + 3
    /\ resolved = FillLine(5)
    /\ born[hist_ptr] = appends
    /\ history[hist_ptr].cmd = FillLine(5)

\* ------------------------------------------------------------------------
\* C3: no history record has a text that begins with `!`; the record a bang
\* line adds is the text it resolved to, not the bang line.
\* ------------------------------------------------------------------------
C3_NoBangRecord ==
    /\ \A i \in Live : history[i].cmd[1] # "!"
    /\ (line # NULL /\ line[1] = "!" /\ resolved # NULL) =>
          history[hist_ptr].cmd = resolved

\* a bang line has been resolved and its text appended
C3_Witness ==
    /\ line = Ln(<<<<"!", "!">>>>)
    /\ resolved # NULL
    /\ appends >= 2
    /\ history[hist_ptr].cmd = resolved

\* ------------------------------------------------------------------------
\* C4: a line that ends in a reference error ("Command not in history" or
\* "Invalid reference") leaves hist_ptr and every slot's text and process id
\* as they were, runs nothing, and the loop is back at the prompt.
\* ------------------------------------------------------------------------
C4_ErrorKeepsHistory ==
    [][ReferenceErrorReported(msgs') =>
          /\ history' = history
          /\ hist_ptr' = hist_ptr
          /\ appends' = appends
          /\ effects' = <<>>
          /\ listing' = <<>>
          /\ pc' = "prompt"]_vars

\* !5 on a log of three records: no such record
C4_Witness ==
    /\ line = BangN(5)
    /\ appends = 3
    /\ Reported(msgs, "Command not in history")
    /\ nfree = 1

\* ------------------------------------------------------------------------
\* C5: a dispatched text whose first word does not begin with `!` (the line
\* read, or the text a bang line resolved to) is the newest record of the log
\* whatever its outcome, and it already was when print_history, chdir or
\* fork/execvp ran for it.
\* ------------------------------------------------------------------------
Dispatched == IF resolved # NULL THEN resolved ELSE line

C5_AppendFirst ==
    (depth >= 1 /\ Dispatched[1] # "!") =>
        /\ hist_ptr \in Slots
        /\ history[hist_ptr].cmd = Dispatched
        /\ born[hist_ptr] = appends
        /\ \A n \in 1..Len(effects) :
              /\ effects[n].text = Dispatched
              /\ effects[n].newest = hist_ptr

\* a cd that fails after the ring has wrapped: its line is the newest record
C5_Witness ==
    /\ line = Ln(<<W_cd, <<"n">>>>)
    /\ Reported(msgs, "cd: ")
    /\ appends > HISTORY_SIZE
    /\ Len(effects) = 1
    /\ history[hist_ptr].cmd = line

\* ------------------------------------------------------------------------
\* C6 as stated: the listing of a `history` command consists of exactly the
\* records appended before it; after echo a, echo b, echo c it is the three
\* lines [ 0] echo a, [ 1] echo b, [ 2] echo c, and a following !1 appends
\* echo b as the record with index 3.
\* ------------------------------------------------------------------------
Chars_echo_a == <<"e", "c", "h", "o", " ", "a", "\n">>
Chars_echo_b == <<"e", "c", "h", "o", " ", "b", "\n">>
Chars_echo_c == <<"e", "c", "h", "o", " ", "c", "\n">>
Chars_history == <<"h", "i", "s", "t", "o", "r", "y", "\n">>

C6_AsStated ==
    /\ (line = Chars_history /\ appends = 4 /\ nfree = 1) =>
          listing = << <<"[", " ", "0", "]", " ">> \o Chars_echo_a,
                       <<"[", " ", "1", "]", " ">> \o Chars_echo_b,
                       <<"[", " ", "2", "]", " ">> \o Chars_echo_c >>
    /\ (line = BangN(1) /\ nfree = 2 /\ appends = 5
            /\ history[3].cmd = Chars_history) =>
          (resolved = Chars_echo_b /\ hist_ptr = 3)

\* ------------------------------------------------------------------------
\* C6 amended: the listing consists of the records live when it is printed,
\* oldest first and numbered from 0, the last being the record of the
\* `history` line itself: the last min(k, HISTORY_SIZE) of the k records
\* appended so far.  After echo a, echo b, echo c it is the four lines
\* [ 0] echo a, [ 1] echo b, [ 2] echo c, [ 3] history, and a following !1
\* appends echo b as the record with index 4.
\* ------------------------------------------------------------------------
C6_Prefix(j, showpid, pid) ==
    <<"[">> \o (IF j < 10 THEN <<" ", Digits[j + 1]>>
                ELSE <<Digits[(j \div 10) + 1], Digits[(j % 10) + 1]>>)
    \o <<"]", " ">>
    \o (IF showpid THEN <<"[">> \o FmtD(pid) \o <<"]", " ">> ELSE <<>>)

C6_Listing ==
    /\ listing # <<>> =>
          /\ Len(listing) = Min(appends, HISTORY_SIZE)
          /\ \A n \in 1..Len(listing) :
                LET rec == history[SlotOfAppend(appends - Len(listing) + n)]
                IN  listing[n] =
                        C6_Prefix(n - 1, Dispatched = Ln(<<W_history, W_p>>), rec.pid)
                        \o rec.cmd
          /\ listing[Len(listing)] =
                C6_Prefix(Len(listing) - 1, Dispatched = Ln(<<W_history, W_p>>), -1)
                \o Dispatched
    /\ (line = Chars_history /\ appends = 4 /\ nfree = 1) =>
          listing = << <<"[", " ", "0", "]", " ">> \o Chars_echo_a,
                       <<"[", " ", "1", "]", " ">> \o Chars_echo_b,
                       <<"[", " ", "2", "]", " ">> \o Chars_echo_c,
                       <<"[", " ", "3", "]", " ">> \o Chars_history >>
    /\ (line = BangN(1) /\ nfree = 2 /\ appends = 5
            /\ history[3].cmd = Chars_history) =>
          (resolved = Chars_echo_b /\ hist_ptr = 4
              /\ history[4].cmd = Chars_echo_b)

\* echo a, echo b, echo c, history, !1
C6_Witness ==
    /\ line = BangN(1)
    /\ nfree = 2
    /\ appends = 5
    /\ history[3].cmd = Chars_history
    /\ history[4].cmd = Chars_echo_b

\* ------------------------------------------------------------------------
\* C7: `!!` right after X was appended resolves to X's text and appends a
\* record with that text in the next slot of the ring, a different slot; X's
\* record keeps its text and process id; when X is external the new record
\* gets the process id of the process launched for it.
\* ------------------------------------------------------------------------
C7_Step ==
    LET x == hist_ptr
        n == (hist_ptr + 1) % HISTORY_SIZE
    IN  /\ resolved' = history[x].cmd
        /\ hist_ptr' = n
        /\ n # x
        /\ history'[n].cmd = history[x].cmd
        /\ born'[n] = born[x] + 1
        /\ history'[x] = history[x]
        /\ \A e \in 1..Len(effects') :
              (effects'[e].kind = "exec") =>
                  /\ history'[n].pid = effects'[e].pid
                  /\ history'[n].pid # history[x].pid
        /\ (\A e \in 1..Len(effects') : effects'[e].kind # "exec") =>
              history'[n].pid = -1

C7_BangBang ==
    [][(pc = "prompt" /\ FirstWord(line') = <<"!", "!">> /\ line'[1] = "!"
            /\ hist_ptr # -1) => C7_Step]_vars

\* `!!` after an external command, its copy launched with a process id of its own
C7_Witness ==
    /\ line = Ln(<<<<"!", "!">>>>)
    /\ resolved = Ln(<<W_ls>>)
    /\ nfree = 2
    /\ appends > HISTORY_SIZE
    /\ Len(effects) = 1
    /\ effects[1].kind = "exec"
    /\ history[hist_ptr].pid = effects[1].pid

\* ------------------------------------------------------------------------
\* C8 as stated: for a first word !r with r other than `!`, unless r is a
\* non-empty string of decimal digits denoting a number below HISTORY_SIZE,
\* the dispatch reports an invalid reference and neither runs nor appends
\* anything.
\* ------------------------------------------------------------------------
RECURSIVE C8_Value(_)
C8_Value(r) ==
    IF Len(r) = 0 THEN 0
    ELSE Min(C8_Value(SubSeq(r, 1, Len(r) - 1)) * 10 + DigitVal(r[Len(r)]),
             HISTORY_SIZE)

C8_IndexDigits(r) ==
    /\ Len(r) >= 1
    /\ \A n \in 1..Len(r) : IsDigit(r[n])
    /\ C8_Value(r) < HISTORY_SIZE

C8_AsStated ==
    (depth >= 1 /\ line[1] = "!" /\ Tail(FirstWord(line)) # <<"!">>
        /\ ~C8_IndexDigits(Tail(FirstWord(line)))) =>
        /\ msgs = <<Msg("stderr", "Invalid reference: ", Tail(FirstWord(line)))>>
        /\ resolved = NULL
        /\ effects = <<>>
        /\ listing = <<>>

\* ------------------------------------------------------------------------
\* C9 as stated: a line takes the BangLatest branch only if its first word is
\* exactly `!!`.
\* ------------------------------------------------------------------------
C9_AsStated ==
    (\E n \in 1..Len(route) : route[n] = "BangLatest") =>
        FirstWord(line) = <<"!", "!">>

\* ------------------------------------------------------------------------
\* C10 as stated: after parse_tokens the token array holds the maximal runs
\* of non-white-space characters of the parsed text, in order, the first
\* MAX_NUM_ARGUMENTS of them, and every later slot is empty.
\* ------------------------------------------------------------------------
\* the words of s; w is the word being read
RECURSIVE C10_Words(_, _)
C10_Words(s, w) ==
    IF Len(s) = 0 THEN (IF Len(w) = 0 THEN <<>> ELSE <<w>>)
    ELSE IF Head(s) \in WHITESPACE
         THEN (IF Len(w) = 0 THEN <<>> ELSE <<w>>) \o C10_Words(Tail(s), <<>>)
         ELSE C10_Words(Tail(s), Append(w, Head(s)))

C10_AsStated ==
    (line # NULL /\ line[1] # "\n") =>
        LET ws == C10_Words(Dispatched, <<>>)
        IN  \A i \in 0..MAX_NUM_ARGUMENTS :
                token[i] = IF i < Len(ws) /\ i < MAX_NUM_ARGUMENTS
                           THEN ws[i + 1] ELSE NULL

\* ------------------------------------------------------------------------
\* C11: at the prompt every live record of a built-in (history, cd) has the
\* process id -1 and every live record of an external command has the id of
\* the process launched for it: an id fork has returned, shared with no other
\* live record, and for the record just added the id of the process just
\* launched.
\* ------------------------------------------------------------------------
C11_Builtin(i) == FirstWord(history[i].cmd) \in {W_history, W_cd}

C11_Pids ==
    pc = "prompt" =>
        /\ \A i \in Live :
              IF C11_Builtin(i) THEN history[i].pid = -1
              ELSE /\ history[i].pid \in FirstPid..(nextpid - 1)
                   /\ \A j \in Live \ {i} : history[j].pid # history[i].pid
                   /\ \A j \in Live :
                         (~C11_Builtin(j) /\ born[j] < born[i]) =>
                             history[j].pid < history[i].pid
        /\ \A e \in 1..Len(effects) :
              effects[e].kind = "exec" => history[hist_ptr].pid = effects[e].pid

\* a replayed cd sits in a slot that held an external command, whose own
\* record is still live
C11_Witness ==
    /\ pc = "prompt"
    /\ appends > HISTORY_SIZE
    /\ line = Ln(<<<<"!", "!">>>>)
    /\ resolved = Ln(<<W_cd>>)
    /\ history[hist_ptr].pid = -1
    /\ \E i \in Live : history[i].pid >= FirstPid

\* ------------------------------------------------------------------------
\* C12 as stated: a cd line with two or more extra arguments reports the
\* argument-count error, leaves the working directory alone, launches no
\* process, attaches no process id to any record (its own keeps -1), and the
\* loop is back at the prompt.
\* ------------------------------------------------------------------------
C12_TooManyArgs(text) ==
    LET ws == C10_Words(text, <<>>)
    IN  Len(ws) >= 3 /\ ws[1] = W_cd

C12_AsStated ==
    [][(pc = "prompt" /\ depth' >= 1 /\ C12_TooManyArgs(Dispatched')) =>
          /\ Reported(msgs', "Too many args for cd command")
          /\ cwd' = cwd
          /\ nextpid' = nextpid
          /\ \A e \in 1..Len(effects') : effects'[e].kind # "exec"
          /\ \A i \in Slots :
                history'[i].pid = IF i = hist_ptr' THEN -1 ELSE history[i].pid
          /\ pc' = "prompt"]_vars

\* ------------------------------------------------------------------------
\* C13: a line whose first word is quit or exit ends the loop (return 0)
\* without reaching the dispatcher and without being appended; no history
\* record ever has quit or exit as its first word, and the loop never ends
\* on a line that replayed a record.
\* ------------------------------------------------------------------------
C13_QuitWords == {W_quit, W_exit}

C13_Quit ==
    [][/\ FirstWord(line') \in C13_QuitWords =>
              /\ pc' = "exited"
              /\ depth' = 0
              /\ history' = history
              /\ hist_ptr' = hist_ptr
              /\ appends' = appends
       /\ pc' = "exited" =>
              (FirstWord(line') \in C13_QuitWords /\ resolved' = NULL)
       /\ \A i \in Slots :
              history'[i].cmd # NULL =>
                  FirstWord(history'[i].cmd) \notin C13_QuitWords]_vars

\* exit typed at a wrapped log
C13_Witness ==
    /\ pc = "exited"
    /\ line = Ln(<<W_exit>>)
    /\ appends > HISTORY_SIZE
    /\ depth = 0

\* ------------------------------------------------------------------------
\* C14: every dispatch ends, with run_command_string nested at most once: a
\* bang line causes at most one nested dispatch and that one takes no bang
\* branch.
\* ------------------------------------------------------------------------
C14_Bang == {"BangLatest", "BangIndexed"}

C14_Depth ==
    /\ pc # "overflow"
    /\ depth <= 2
    /\ Len(route) <= 2
    /\ Len(route) = depth
    /\ Len(route) = 2 => (route[1] \in C14_Bang /\ route[2] \notin C14_Bang)
    /\ (Len(route) = 1 /\ route[1] \in C14_Bang) => ReferenceErrorReported(msgs)

\* !3 on a wrapped log: one nested dispatch, of an external command
C14_Witness ==
    /\ depth = 2
    /\ line = BangN(3)
    /\ route = <<"BangIndexed", "External">>
    /\ appends > HISTORY_SIZE
    /\ pc = "prompt"

\* ------------------------------------------------------------------------
\* C15: dispatching a non-bang line advances hist_ptr by one modulo
\* HISTORY_SIZE and writes that slot only: every other slot keeps its text
\* and process id; on every step a slot that still holds the same record
\* holds the same text.
\* ------------------------------------------------------------------------
C15_Frame ==
    [][/\ (pc = "prompt" /\ depth' >= 1 /\ line'[1] # "!") =>
              LET n == (hist_ptr + 1) % HISTORY_SIZE
              IN  /\ hist_ptr' = n
                  /\ history'[n].cmd = line'
                  /\ born'[n] = appends + 1
                  /\ \A i \in Slots \ {n} :
                        history'[i] = history[i] /\ born'[i] = born[i]
       /\ \A i \in Slots :
              born'[i] = born[i] => history'[i].cmd = history[i].cmd]_vars

\* ls typed when the newest record is in the last slot: slot 0 is rewritten
C15_Witness ==
    /\ line = Ln(<<W_ls>>)
    /\ hist_ptr = 0
    /\ appends = HISTORY_SIZE + 1
    /\ born[0] = appends
    /\ history[0].cmd = line
    /\ pc = "prompt"

\* ------------------------------------------------------------------------
\* C16: when a bang reference is resolved the token array is that of the
\* stored text alone, whatever it held before and whatever followed the
\* reference on the line: its words are words of the stored text, in order,
\* every other slot is empty, and a program launched for the replay is
\* handed words of the stored text only.
\* ------------------------------------------------------------------------
C16_NoTokens == [i \in 0..MAX_NUM_ARGUMENTS |-> NULL]

RECURSIVE C16_Present(_, _)
C16_Present(tok, i) ==
    IF i > MAX_NUM_ARGUMENTS THEN <<>>
    ELSE (IF tok[i] = NULL THEN <<>> ELSE <<tok[i]>>) \o C16_Present(tok, i + 1)

C16_IsPrefix(p, q) == Len(p) <= Len(q) /\ SubSeq(q, 1, Len(p)) = p

C16_LongLine == Ln(<<W_w, W_w, W_w, W_w, W_w, W_w, W_w, W_w, W_w, W_w, W_w, W_w>>)

C16_ReplayTokens ==
    resolved # NULL =>
        /\ token = parse_tokens(C16_NoTokens, resolved)
        /\ C16_IsPrefix(C16_Present(token, 0), C10_Words(resolved, <<>>))
        /\ \A e \in 1..Len(effects) :
              C16_IsPrefix(effects[e].argv, C10_Words(resolved, <<>>))

\* echo a, echo b, echo c, a line of twelve words, then !0 replays echo a
C16_Witness ==
    /\ line = BangN(0)
    /\ appends = 5
    /\ history[3].cmd = C16_LongLine
    /\ resolved = Chars_echo_a
    /\ C16_Present(token, 0) = <<W_echo, <<"a">>>>
    /\ Len(effects) = 1
    /\ effects[1].argv = <<W_echo, <<"a">>>>

\* ------------------------------------------------------------------------
\* C17: the numbers of a listing are the indices bang references use.  When
\* the line before printed a listing, the listing numbers the live records
\* 0..count-1, oldest first, and a line !j with j below the count resolves
\* to the text shown under number j, before and after the log has wrapped.
\* ------------------------------------------------------------------------
C17_Shown(j) == history[SlotOfAppend(AppendAtIndex(j))]

C17_Agree ==
    [][(pc = "prompt" /\ listing # <<>> /\ depth' >= 1) =>
          /\ Len(listing) = Cardinality(Live)
          /\ \A j \in 0..(Len(listing) - 1) :
                /\ listing[j + 1] =
                      C6_Prefix(j, Dispatched = Ln(<<W_history, W_p>>),
                                C17_Shown(j).pid) \o C17_Shown(j).cmd
                /\ j >= 1 =>
                      born[SlotOfAppend(AppendAtIndex(j - 1))]
                          < born[SlotOfAppend(AppendAtIndex(j))]
                /\ line' = BangN(j) =>
                      /\ resolved' = C17_Shown(j).cmd
                      /\ history'[hist_ptr'].cmd = C17_Shown(j).cmd
                      /\ ~ReferenceErrorReported(msgs')]_vars

\* seventeen echo lines, history, !3: the listing showed echo a (the seventh
\* line) under number 3
C17_Witness ==
    /\ line = BangN(3)
    /\ appends = HISTORY_SIZE + 4
    /\ history[(hist_ptr + HISTORY_SIZE - 1) % HISTORY_SIZE].cmd = Chars_history
    /\ resolved = FillLine(6)
    /\ history[hist_ptr].cmd = FillLine(6)
    /\ pc = "prompt"

\* ------------------------------------------------------------------------
\* C18: for every line read, either the line is skipped (nothing is
\* dispatched and the prompt returns) or its first token is a non-empty
\* word; the first token is never absent where it is examined, so the
\* interpreter never stops on a line.
\* ------------------------------------------------------------------------
C18_Skipped == depth = 0 /\ pc = "prompt" /\ effects = <<>> /\ msgs = <<>>

C18_AsStated ==
    line # NULL =>
        /\ pc # "crashed"
        /\ C18_Skipped \/ (token[0] # NULL /\ Len(token[0]) > 0)

\* ------------------------------------------------------------------------
\* C19: on a full log !0 resolves to the oldest record, whose slot is the
\* one the resulting append writes: the record written has the text the
\* evicted record had, every other slot is untouched, and the window
\* afterwards is the window before rotated by one, the former oldest
\* record being the newest.
\* ------------------------------------------------------------------------
C19_At(h, hp, j) == h[(hp + 1 + j) % HISTORY_SIZE].cmd

C19_Rotate ==
    [][(pc = "prompt" /\ Cardinality(Live) = HISTORY_SIZE
            /\ line' = BangN(0) /\ depth' >= 1) =>
          LET oldest == (hist_ptr + 1) % HISTORY_SIZE
          IN  /\ born[oldest] = appends - HISTORY_SIZE + 1
              /\ resolved' = history[oldest].cmd
              /\ hist_ptr' = oldest
              /\ history'[oldest].cmd = history[oldest].cmd
              /\ born'[oldest] = appends + 1
              /\ \A i \in Slots \ {oldest} :
                    history'[i] = history[i] /\ born'[i] = born[i]
              /\ \A j \in 0..(HISTORY_SIZE - 2) :
                    C19_At(history', hist_ptr', j) = C19_At(history, hist_ptr, j + 1)
              /\ C19_At(history', hist_ptr', HISTORY_SIZE - 1)
                    = C19_At(history, hist_ptr, 0)]_vars

\* seventeen echo lines, then !0: the oldest live record, echo c in slot 2,
\* is replayed into slot 2
C19_Witness ==
    /\ line = BangN(0)
    /\ appends = HISTORY_SIZE + 3
    /\ hist_ptr = 2
    /\ resolved = Chars_echo_c
    /\ history[2].cmd = Chars_echo_c
    /\ born[2] = appends
    /\ history[3].cmd = Chars_echo_a
    /\ pc = "prompt"

====
